---- MODULE Spec2Model ----
(***************************************************************************)
(* TinyCrypt GCM mode (lib/source/gcm_mode.c, lib/include/tinycrypt/       *)
(* gcm_mode.h).  The six entry points are modelled as operators from the   *)
(* arguments and the memory the pointers can reach to the return value,    *)
(* the memory afterwards and the blocks handed to the block cipher.  A     *)
(* caller drives them in the usage order of the header (encryption init,   *)
(* update(s), final, then decryption init, update(s), final), may flip one *)
(* bit of the ciphertext, the AAD or the tag in between, and may at any    *)
(* point make a call the header documents as failing.                      *)
(***************************************************************************)
EXTENDS Integers, Sequences, FiniteSets, TLC

\* ---- bounds of the model ------------------------------------------------
MaxLen == 2          \* longest plaintext, in bytes
MaxAad == 1          \* longest additional data, in bytes
TagCells == 1        \* modelled bytes of the tag buffer
MaxTagLen == 16      \* largest tag_len argument tried

\* ---- program constants --------------------------------------------------
TC_CRYPTO_SUCCESS == 1
TC_CRYPTO_FAIL == 0

Bit == {0, 1}
Keys == {"k1"}
IVs == {0, 1}

\* ---- pointers and memory ------------------------------------------------
\* A pointer is NULL or a buffer of the caller's memory with an offset.
NULL == [buf |-> "null", off |-> 0]
Ptr(b, o) == [buf |-> b, off |-> o]

SeqsUpTo(S, n) == UNION {[1..k -> S] : k \in 1..n}
Zeros(n) == [i \in 1..n |-> 0]
Flip(s, i) == [s EXCEPT ![i] = 1 - @]

\* The caller's buffers before the first call: key schedule, IV, AAD and
\* plaintext chosen by the caller, the output buffers zeroed.
FreshMem(k, iv, aad, pt) ==
    [sched |-> k, iv |-> iv, aad |-> aad, pt |-> pt,
     ct |-> Zeros(Len(pt)), tag |-> Zeros(TagCells), out |-> Zeros(Len(pt))]

\* ---- the six entry points -----------------------------------------------
\* Each returns [ret, mem, aes]: the return value, the memory after the call
\* and the sequence of blocks it passed to the block cipher.

\* Mutant: init without its precondition check.
tc_gcm_encryption_init_unchecked(sched, iv, aad, additional_len, m) ==
    [ret |-> TC_CRYPTO_SUCCESS, mem |-> m, aes |-> <<>>]

tc_gcm_encryption_init(sched, iv, aad, additional_len, m) ==
    [ret |-> TC_CRYPTO_FAIL, mem |-> m, aes |-> <<>>]

\* Mutant: update whose keystream position restarts with every call instead
\* of carrying on from the previous chunk.
tc_gcm_encryption_update_restart(sched, input, output, length, m) ==
    IF sched = NULL \/ input = NULL \/ output = NULL \/ length = 0
    THEN [ret |-> TC_CRYPTO_FAIL, mem |-> m, aes |-> <<>>]
    ELSE [ret |-> TC_CRYPTO_SUCCESS,
          mem |-> [m EXCEPT ![output.buf] =
                     [i \in DOMAIN m[output.buf] |->
                        IF i > output.off /\ i <= output.off + length
                        THEN (m[input.buf][input.off + (i - output.off)]
                              + ((i - output.off) % 2)) % 2
                        ELSE m[output.buf][i]]],
          aes |-> <<>>]

tc_gcm_encryption_update(sched, input, output, length, m) ==
    [ret |-> TC_CRYPTO_FAIL, mem |-> m, aes |-> <<>>]

tc_gcm_encryption_final(sched, input, input_len, aad_len, output, tag, m) ==
    [ret |-> TC_CRYPTO_FAIL, mem |-> m, aes |-> <<>>]

tc_gcm_decryption_init(sched, iv, aad, additional_len, m) ==
    [ret |-> TC_CRYPTO_FAIL, mem |-> m, aes |-> <<>>]

\* Mutant: update that touches its output buffer before it validates the
\* other arguments.
tc_gcm_decryption_update_early_write(sched, input, output, length, m) ==
    [ret |-> TC_CRYPTO_FAIL,
     mem |-> IF output = NULL THEN m
             ELSE [m EXCEPT ![output.buf][output.off + 1] = 1],
     aes |-> <<>>]

\* Mutant: update that follows the header: success unless an argument is
\* NULL or the length is zero.
tc_gcm_decryption_update_documented(sched, input, output, length, m) ==
    [ret |-> IF sched = NULL \/ input = NULL \/ output = NULL \/ length = 0
             THEN TC_CRYPTO_FAIL ELSE TC_CRYPTO_SUCCESS,
     mem |-> m, aes |-> <<>>]

tc_gcm_decryption_update(sched, input, output, length, m) ==
    [ret |-> TC_CRYPTO_FAIL, mem |-> m, aes |-> <<>>]

\* Mutant: final that validates its arguments but never compares the tag.
tc_gcm_decryption_final_noverify(sched, input, tag, aad_len, input_len, tag_len, output, m) ==
    [ret |-> IF \/ sched = NULL \/ input = NULL \/ tag = NULL \/ output = NULL
                \/ aad_len = 0 \/ input_len = 0 \/ tag_len < 8
             THEN TC_CRYPTO_FAIL ELSE TC_CRYPTO_SUCCESS,
     mem |-> m, aes |-> <<>>]

\* Mutant: final that rejects only what the header lists (tag_len == 0), so a
\* tag of 1..7 bytes is let through.
tc_gcm_decryption_final_header_only(sched, input, tag, aad_len, input_len, tag_len, output, m) ==
    [ret |-> IF \/ sched = NULL \/ input = NULL \/ tag = NULL \/ output = NULL
                \/ aad_len = 0 \/ input_len = 0 \/ tag_len = 0
             THEN TC_CRYPTO_FAIL ELSE TC_CRYPTO_SUCCESS,
     mem |-> m, aes |-> <<>>]

tc_gcm_decryption_final(sched, input, tag, aad_len, input_len, tag_len, output, m) ==
    [ret |-> TC_CRYPTO_FAIL, mem |-> m, aes |-> <<>>]


\* ---- what the header documents as a valid call --------------------------
ValidInit(sched, iv, aad, additional_len) ==
    sched # NULL /\ iv # NULL /\ aad # NULL /\ additional_len # 0

ValidUpdate(sched, input, output, length) ==
    sched # NULL /\ input # NULL /\ output # NULL /\ length # 0

ValidEncFinal(sched, input, input_len, aad_len, output, tag) ==
    /\ sched # NULL /\ input # NULL /\ output # NULL /\ tag # NULL
    /\ input_len # 0 /\ aad_len # 0

ValidDecFinal(sched, input, tag, aad_len, input_len, tag_len, output) ==
    /\ sched # NULL /\ input # NULL /\ tag # NULL /\ output # NULL
    /\ aad_len # 0 /\ input_len # 0 /\ tag_len # 0

\* ---- the caller ---------------------------------------------------------
VARIABLES
    mem,        \* the caller's buffers: sched, iv, aad, pt, ct, tag, out
    pc,         \* the next step of the usage order, "done" after the last
    fed,        \* bytes of the current direction already passed to update
    chunks,     \* lengths of the update calls of the current direction
    rets,       \* <<function, return value>> of the usage-order calls so far
    last,       \* the most recent call: function, documented validity, return value,
                \* memory before it, tag_len passed, cipher blocks it issued
    ks_blocks,  \* every block handed to the block cipher so far
    snap,       \* memory at the start, after encryption final, at decryption init
    ref         \* the same usage-order calls run without the failing extra calls

vars == <<mem, pc, fed, chunks, rets, last, ks_blocks, snap, ref>>

NoCall == [fn |-> "none", valid |-> FALSE, ret |-> TC_CRYPTO_FAIL,
           pre |-> mem, tag_len |-> 0, aes |-> <<>>]

Init ==
    /\ \E k \in Keys, iv \in IVs, aad \in SeqsUpTo(Bit, MaxAad), pt \in SeqsUpTo(Bit, MaxLen) :
          mem = FreshMem(k, iv, aad, pt)
    /\ pc = "enc_init"
    /\ fed = 0
    /\ chunks = <<>>
    /\ rets = {}
    /\ last = NoCall
    /\ ks_blocks = <<>>
    /\ snap = [enc |-> mem, sent |-> mem, dec |-> mem]
    /\ ref = [mem |-> mem, rets |-> {}]

\* One call of the usage order: r is its result on the caller's memory, rr
\* its result in the run that never made a failing extra call.
Proto(fn, valid, tl, r, rr) ==
    /\ mem' = r.mem
    /\ ks_blocks' = ks_blocks \o r.aes
    /\ rets' = rets \cup {<<fn, r.ret>>}
    /\ last' = [fn |-> fn, valid |-> valid, ret |-> r.ret, pre |-> mem, tag_len |-> tl,
                aes |-> r.aes]
    /\ ref' = [mem |-> rr.mem, rets |-> ref.rets \cup {<<fn, rr.ret>>}]

\* A call outside the usage order, made with arguments the header rejects.
Extra(fn, valid, tl, r) ==
    /\ mem' = r.mem
    /\ ks_blocks' = ks_blocks \o r.aes
    /\ last' = [fn |-> fn, valid |-> valid, ret |-> r.ret, pre |-> mem, tag_len |-> tl,
                aes |-> r.aes]
    /\ UNCHANGED <<pc, fed, chunks, rets, snap, ref>>

EncInit ==
    /\ pc = "enc_init"
    /\ LET F(m) == tc_gcm_encryption_init(Ptr("sched", 0), Ptr("iv", 0), Ptr("aad", 0),
                                          Len(m.aad), m)
       IN  Proto("enc_init", TRUE, 0, F(mem), F(ref.mem))
    /\ pc' = "enc_update"
    /\ UNCHANGED <<fed, chunks, snap>>

EncUpdate ==
    /\ pc = "enc_update"
    /\ \E n \in 1..(Len(mem.pt) - fed) :
          LET F(m) == tc_gcm_encryption_update(Ptr("sched", 0), Ptr("pt", fed),
                                               Ptr("ct", fed), n, m)
          IN  /\ Proto("enc_update", TRUE, 0, F(mem), F(ref.mem))
              /\ fed' = fed + n
              /\ chunks' = Append(chunks, n)
              /\ pc' = IF fed + n = Len(mem.pt) THEN "enc_final" ELSE "enc_update"
    /\ UNCHANGED snap

EncFinal ==
    /\ pc = "enc_final"
    /\ LET F(m) == tc_gcm_encryption_final(Ptr("sched", 0), Ptr("pt", 0), Len(m.pt),
                                           Len(m.aad), Ptr("ct", 0), Ptr("tag", 0), m)
       IN  Proto("enc_final", TRUE, 0, F(mem), F(ref.mem))
    /\ pc' = "dec_init"
    /\ fed' = 0
    /\ snap' = [snap EXCEPT !.sent = mem']
    /\ UNCHANGED chunks

Tampered == mem.ct # snap.sent.ct \/ mem.aad # snap.sent.aad \/ mem.tag # snap.sent.tag

\* Between encryption and decryption one bit of the ciphertext, the AAD or
\* the tag is flipped.
Tamper ==
    /\ pc = "dec_init"
    /\ ~Tampered
    /\ \E b \in {"ct", "aad", "tag"} : \E i \in DOMAIN mem[b] :
          /\ mem' = [mem EXCEPT ![b] = Flip(@, i)]
          /\ ref' = [ref EXCEPT !.mem[b] = Flip(@, i)]
    /\ last' = [NoCall EXCEPT !.pre = mem']
    /\ UNCHANGED <<pc, fed, chunks, rets, ks_blocks, snap>>

DecInit ==
    /\ pc = "dec_init"
    /\ LET F(m) == tc_gcm_decryption_init(Ptr("sched", 0), Ptr("iv", 0), Ptr("aad", 0),
                                          Len(m.aad), m)
       IN  Proto("dec_init", TRUE, 0, F(mem), F(ref.mem))
    /\ pc' = "dec_update"
    /\ chunks' = <<>>
    /\ snap' = [snap EXCEPT !.dec = mem]
    /\ UNCHANGED fed

DecUpdate ==
    /\ pc = "dec_update"
    /\ \E n \in 1..(Len(mem.ct) - fed) :
          LET F(m) == tc_gcm_decryption_update(Ptr("sched", 0), Ptr("ct", fed),
                                               Ptr("out", fed), n, m)
          IN  /\ Proto("dec_update", TRUE, 0, F(mem), F(ref.mem))
              /\ fed' = fed + n
              /\ chunks' = Append(chunks, n)
              /\ pc' = IF fed + n = Len(mem.ct) THEN "dec_final" ELSE "dec_update"
    /\ UNCHANGED snap

DecFinal ==
    /\ pc = "dec_final"
    /\ \E tl \in {8, MaxTagLen} :
          LET F(m) == tc_gcm_decryption_final(Ptr("sched", 0), Ptr("ct", 0), Ptr("tag", 0),
                                              Len(m.aad), Len(m.ct), tl, Ptr("out", 0), m)
          IN  Proto("dec_final", TRUE, tl, F(mem), F(ref.mem))
    /\ pc' = "done"
    /\ UNCHANGED <<fed, chunks, snap>>

\* The argument named w (or every argument, for w = "all") is the one the
\* header rejects: a NULL pointer, a zero length.
PtrArg(w, name, b) == IF w \in {name, "all"} THEN NULL ELSE Ptr(b, 0)
LenArg(w, name, n) == IF w \in {name, "all"} THEN 0 ELSE n

BadInit ==
    \E w \in {"sched", "iv", "aad", "additional_len", "all"} :
       LET s == PtrArg(w, "sched", "sched")
           iv == PtrArg(w, "iv", "iv")
           a == PtrArg(w, "aad", "aad")
           n == LenArg(w, "additional_len", Len(mem.aad))
       IN  \/ Extra("enc_init", ValidInit(s, iv, a, n), 0,
                    tc_gcm_encryption_init(s, iv, a, n, mem))
           \/ Extra("dec_init", ValidInit(s, iv, a, n), 0,
                    tc_gcm_decryption_init(s, iv, a, n, mem))

BadUpdate ==
    \E w \in {"sched", "input", "output", "length", "all"} :
       LET s == PtrArg(w, "sched", "sched")
           n == LenArg(w, "length", 1)
       IN  \/ LET i == PtrArg(w, "input", "pt")
                  o == PtrArg(w, "output", "ct")
              IN  Extra("enc_update", ValidUpdate(s, i, o, n), 0,
                        tc_gcm_encryption_update(s, i, o, n, mem))
           \/ LET i == PtrArg(w, "input", "ct")
                  o == PtrArg(w, "output", "out")
              IN  Extra("dec_update", ValidUpdate(s, i, o, n), 0,
                        tc_gcm_decryption_update(s, i, o, n, mem))

BadEncFinal ==
    \E w \in {"sched", "input", "input_len", "aad_len", "output", "tag", "all"} :
       LET s == PtrArg(w, "sched", "sched")
           i == PtrArg(w, "input", "pt")
           n == LenArg(w, "input_len", Len(mem.pt))
           a == LenArg(w, "aad_len", Len(mem.aad))
           o == PtrArg(w, "output", "ct")
           t == PtrArg(w, "tag", "tag")
       IN  Extra("enc_final", ValidEncFinal(s, i, n, a, o, t), 0,
                 tc_gcm_encryption_final(s, i, n, a, o, t, mem))

\* Either an argument the header rejects (with a full-length tag), or every
\* other argument valid and a tag shorter than 64 bits.
BadDecFinal ==
    \E w \in {"sched", "input", "tag", "aad_len", "input_len", "output", "all", "tag_len"} :
       \E tl \in IF w = "tag_len" THEN {0, 1, 7} ELSE {MaxTagLen} :
          LET s == PtrArg(w, "sched", "sched")
              i == PtrArg(w, "input", "ct")
              t == PtrArg(w, "tag", "tag")
              a == LenArg(w, "aad_len", Len(mem.aad))
              n == LenArg(w, "input_len", Len(mem.ct))
              o == PtrArg(w, "output", "out")
          IN  Extra("dec_final", ValidDecFinal(s, i, t, a, n, tl, o), tl,
                    tc_gcm_decryption_final(s, i, t, a, n, tl, o, mem))

Next ==
    \/ EncInit \/ EncUpdate \/ EncFinal
    \/ Tamper
    \/ DecInit \/ DecUpdate \/ DecFinal
    \/ BadInit \/ BadUpdate \/ BadEncFinal \/ BadDecFinal

Spec == Init /\ [][Next]_vars

TypeOK ==
    /\ pc \in {"enc_init", "enc_update", "enc_final", "dec_init", "dec_update", "dec_final", "done"}
    /\ fed \in 0..Len(mem.pt)
    /\ last.ret \in {TC_CRYPTO_SUCCESS, TC_CRYPTO_FAIL}

\* ---- vocabulary of the properties ----------------------------------------
Inits == {"enc_init", "dec_init"}
EncDone == pc \in {"dec_init", "dec_update", "dec_final", "done"}

\* The phase of the context of direction d ("enc" or "dec") as the return
\* values of the usage-order calls show it.
CtxPhase(d) ==
    IF <<d \o "_final", TC_CRYPTO_SUCCESS>> \in rets THEN "Finalized"
    ELSE IF <<d \o "_final", TC_CRYPTO_FAIL>> \in rets THEN "Failed"
    ELSE IF <<d \o "_update", TC_CRYPTO_SUCCESS>> \in rets THEN "Streaming"
    ELSE IF <<d \o "_init", TC_CRYPTO_SUCCESS>> \in rets THEN "AadAbsorbed"
    ELSE "Init"

\* What decryption was given differs from what encryption left.
DecInputTampered ==
    \/ snap.dec.ct # snap.sent.ct
    \/ snap.dec.aad # snap.sent.aad
    \/ snap.dec.tag # snap.sent.tag

\* The usage-order decryption final has just returned.
JustDecFinal == pc = "done" /\ last.fn = "dec_final" /\ last.valid /\ last.tag_len >= 8

\* The whole input passed in a single update call, from memory m.
OneShotEnc(m) ==
    LET s == Ptr("sched", 0)
        r1 == tc_gcm_encryption_init(s, Ptr("iv", 0), Ptr("aad", 0), Len(m.aad), m)
        r2 == tc_gcm_encryption_update(s, Ptr("pt", 0), Ptr("ct", 0), Len(m.pt), r1.mem)
    IN  tc_gcm_encryption_final(s, Ptr("pt", 0), Len(m.pt), Len(m.aad), Ptr("ct", 0),
                                Ptr("tag", 0), r2.mem)

OneShotDec(m, tl) ==
    LET s == Ptr("sched", 0)
        r1 == tc_gcm_decryption_init(s, Ptr("iv", 0), Ptr("aad", 0), Len(m.aad), m)
        r2 == tc_gcm_decryption_update(s, Ptr("ct", 0), Ptr("out", 0), Len(m.ct), r1.mem)
    IN  tc_gcm_decryption_final(s, Ptr("ct", 0), Ptr("tag", 0), Len(m.aad), Len(m.ct), tl,
                                Ptr("out", 0), r2.mem)

\* J0 for a 96-bit IV is IV || 0^31 1; inc32 adds one to the low 32 bits.
J0(iv) == [hi |-> iv, ctr |-> 1]
inc32(b) == [b EXCEPT !.ctr = (@ + 1) % (2 ^ 32)]
RECURSIVE CounterAfter(_, _)
CounterAfter(b, k) == IF k = 0 THEN b ELSE inc32(CounterAfter(b, k - 1))
BlocksOf(n) == (n + 15) \div 16

\* ---- properties ---------------------------------------------------------

\* C1: an init call with sched, iv and aad non-NULL and additional_len
\* non-zero returns TC_CRYPTO_SUCCESS and moves the context from Init to
\* AadAbsorbed; TC_CRYPTO_FAIL is returned only for a NULL sched, iv or aad or
\* a zero additional_len.
C1_InitContract ==
    last.fn \in Inits =>
       /\ last.valid <=> last.ret = TC_CRYPTO_SUCCESS
       /\ last.valid => CtxPhase(IF last.fn = "enc_init" THEN "enc" ELSE "dec") = "AadAbsorbed"

\* C2: an init call with additional_len == 0 or a NULL sched, iv or aad
\* returns TC_CRYPTO_FAIL, issues no cipher block and leaves every buffer and
\* the phase as they were before the call.
C2_InitRejection ==
    (last.fn \in Inits /\ ~last.valid) =>
       /\ last.ret = TC_CRYPTO_FAIL
       /\ mem = last.pre
       /\ last.aes = <<>>
       /\ (pc = "enc_init" => CtxPhase("enc") = "Init")

C2_Witness ==
    /\ last.fn \in Inits /\ ~last.valid /\ last.ret = TC_CRYPTO_FAIL
    /\ pc = "enc_init"

\* C3: encrypting P and decrypting the untouched result with the same key,
\* IV, AAD and tag gives back P, and decryption final returns
\* TC_CRYPTO_SUCCESS.
C3_RoundTrip ==
    (pc = "done" /\ ~DecInputTampered) =>
       /\ mem.out = snap.enc.pt
       /\ <<"dec_final", TC_CRYPTO_SUCCESS>> \in rets

\* C4: however the input is split into update calls, the output bytes and
\* the tag after final are those of passing the whole input in one update
\* call, in both directions.
C4_ChunkInvariance ==
    /\ EncDone =>
          /\ snap.sent.ct = OneShotEnc(snap.enc).mem.ct
          /\ snap.sent.tag = OneShotEnc(snap.enc).mem.tag
          /\ <<"enc_final", OneShotEnc(snap.enc).ret>> \in rets
    /\ JustDecFinal =>
          /\ mem.out = OneShotDec(snap.dec, last.tag_len).mem.out
          /\ last.ret = OneShotDec(snap.dec, last.tag_len).ret

C4_Witness ==
    /\ JustDecFinal
    /\ Len(chunks) >= 2
    /\ Len(snap.enc.pt) >= 2

\* C5: when one bit of the ciphertext, the AAD or the tag was flipped,
\* decryption final returns TC_CRYPTO_FAIL and the decryption context ends
\* Failed, never Finalized.
C5_TamperRejected ==
    (pc = "done" /\ DecInputTampered) =>
       /\ <<"dec_final", TC_CRYPTO_SUCCESS>> \notin rets
       /\ CtxPhase("dec") = "Failed"
       /\ (JustDecFinal => last.ret = TC_CRYPTO_FAIL)

C5_Witness ==
    /\ JustDecFinal
    /\ DecInputTampered

\* C6: in the usage order with valid arguments every call returns
\* TC_CRYPTO_SUCCESS, and once final has returned the context is Finalized
\* (for decryption: when nothing was tampered with).
C6_ProtocolProgress ==
    /\ \A p \in rets : p[1] \in {"enc_init", "enc_update", "enc_final"} => p[2] = TC_CRYPTO_SUCCESS
    /\ EncDone => CtxPhase("enc") = "Finalized"
    /\ (pc = "done" /\ ~DecInputTampered) =>
          /\ \A p \in rets : p[2] = TC_CRYPTO_SUCCESS
          /\ CtxPhase("dec") = "Finalized"

C8_FailurePreservesState ==
    /\ (last.fn # "none" /\ ~last.valid) => (last.ret = TC_CRYPTO_FAIL /\ mem = last.pre)
    /\ mem = ref.mem
    /\ rets = ref.rets

C8_Witness ==
    /\ last.fn \in {"enc_update", "dec_update"} /\ ~last.valid /\ last.ret = TC_CRYPTO_FAIL
    /\ pc = "dec_update" /\ fed > 0

====
